---- MODULE Spec2Model ----
(***************************************************************************)
(* Lattice-dynamics firetasks of atomate/vasp/firetasks/lattice_dynamics.py *)
(* as state machines: the fitting-id counter and the database tasks, the    *)
(* aggregation of perturbed structures, the hiPhive fit and the phonon      *)
(* renormalization.                                                         *)
(***************************************************************************)
EXTENDS Integers, Sequences, FiniteSets, TLC

\* ------------------------------------------------------------------------
\* Bounds of the model
\* ------------------------------------------------------------------------

\* number of workflows (working directories) that share one database
NumWf == 2

\* ------------------------------------------------------------------------
\* Values
\* ------------------------------------------------------------------------

\* Python's None where an integer id is expected (ids start at 1)
None == 0

Wf == 1..NumWf

AllocTasks == {"ForceConstantsToDb", "ForceConstantsRenormToDb"}

BteOutputs == {"BTE.KappaTensorVsT_CONV", "BTE.KappaTensorVsT_RTA"}

Range(seq) == {seq[i] : i \in 1..Len(seq)}

\* sequences of length at most n over S
SeqsUpTo(S, n) == UNION {[1..k -> S] : k \in 0..n}

VARIABLES
    \* ---- database (shared by every workflow) ----
    db_counter,        \* collection mmdb.db.counter: a set of documents
    db_lattice,        \* collection lattice_dynamics
    db_renorm,         \* collection renormalized_lattice_dynamics
    db_kappa,          \* collection lattice_thermal_conductivity
    \* ---- one database task at a time per workflow ----
    fw_spec,           \* fw_spec[w]: the fc_fitting_id the workflow's spec carries
    task,              \* task[w]: the database task running in workflow w
    dpc,               \* dpc[w]: its position
    fc_id,             \* fc_id[w]: local fc_id of _get_fc_fitting_id
    completed,         \* completed[w]: database tasks that returned
    returned,          \* ids returned by _get_fc_fitting_id, in return order
    wdir               \* wdir[w]: the files in workflow w's working directory

VARIABLES
    \* ---- one firetask running in its working directory ----
    pc,                \* position of the running firetask
    error,             \* the exception that ended it, or "none"
    cwd,               \* names of the files in the working directory
    calls,             \* calls made to external oracles, in order
    \* ---- CollectPerturbedStructures ----
    fw_in,             \* the fw_spec handed to the task
    results,           \* fw_spec.get("perturbed_tasks", [])
    structure,         \* the canonical parent structure
    supercell_matrix,
    supercell_structure,
    structure_data,    \* content of structure_data.json
    \* ---- RunHiPhive ----
    cutoffs,           \* self.get("cutoffs")
    bulk_modulus,      \* self.get("bulk_modulus")
    fcs,               \* force constants returned by fit_force_constants
    n_imaginary,       \* thermal_data["n_imaginary"], then fitting_data's
    widx               \* number of artifact writes done

VARIABLES
    \* ---- RunHiPhiveRenorm ----
    module_names,      \* the free names of run_task that resolve at module level
    T_renorm,          \* self.get("T_renorm", T_RENORM)
    renorm_results,    \* the list Parallel(...) is filling, then returns
    pass1_results,     \* what the first Parallel(...) call returned
    submitted,         \* calls of the running pass handed to a worker
    inflight,          \* positions of the calls running in a worker
    idx,               \* position of the running for loop
    result,            \* loop variable `result`
    T,                 \* local `T` of run_task
    T_real,
    cte_real,
    fcs_real,
    param_real,
    thermal_data,      \* dict of lists, keyed by thermal_keys
    tfiles             \* per-temperature files written, in order

dbVars == <<db_counter, db_lattice, db_renorm, db_kappa, fw_spec, task, dpc,
            fc_id, completed, returned, wdir>>

taskVars == <<pc, error, cwd, calls>>

collectVars == <<fw_in, results, structure, supercell_matrix,
                 supercell_structure, structure_data>>

hiphiveVars == <<cutoffs, bulk_modulus, fcs, n_imaginary, widx>>

VARIABLES
    \* ---- RunShengBTE ----
    bte_temperature,   \* self.get("temperature", T_KLAT)
    self_t,            \* the entries run_task sets on the firetask itself
    open_files,        \* files the task holds open
    return_code,       \* <<what subprocess.call returned>>, << >> before that
    error_path         \* the path the error message names

renormVars == <<module_names, T_renorm, renorm_results, pass1_results, submitted, inflight,
                idx, result, T, T_real, cte_real, fcs_real, param_real,
                thermal_data, tfiles>>

bteVars == <<bte_temperature, self_t, open_files, return_code, error_path>>

VARIABLES
    \* ---- RunMultiwfn_QTAIM ----
    mw_in,             \* the task's parameters, fw_spec and the files it finds
    wfn,               \* local `wfn`
    compress_at_end,   \* local `compress_at_end`
    mw_files           \* the files of the working directory: name -> content

mwVars == <<mw_in, wfn, compress_at_end, mw_files>>

fileTaskVars == <<taskVars, collectVars, hiphiveVars, renormVars, bteVars,
                  mwVars>>

vars == <<dbVars, fileTaskVars>>

\* ------------------------------------------------------------------------
\* _get_fc_fitting_id: the two database operations
\* ------------------------------------------------------------------------

CounterDocs(coll) == {d \in coll : d.id = "fc_fitting_id"}

\* find_one_and_update returning the document as it was before the update
FindOneAndUpdateBefore(coll) ==
    IF CounterDocs(coll) = {}
    THEN [coll |-> coll, ret |-> None]
    ELSE LET d == CHOOSE x \in CounterDocs(coll) : TRUE
         IN  [coll |-> (coll \ {d}) \cup {[d EXCEPT !.c = @ + 1]},
              ret  |-> d.c]

\* find_one_and_update({"_id": "fc_fitting_id"}, {"$inc": {"c": 1}},
\*                     return_document=AFTER): one atomic operation, no upsert
FindOneAndUpdate(coll) ==
    IF CounterDocs(coll) = {}
    THEN [coll |-> coll, ret |-> None]
    ELSE LET d == CHOOSE x \in CounterDocs(coll) : TRUE
         IN  [coll |-> (coll \ {d}) \cup {[d EXCEPT !.c = @ + 1]},
              ret  |-> d.c + 1]

\* counter.insert({"_id": "fc_fitting_id", "c": 1}): _id is unique, a second
\* insert of the same _id raises DuplicateKeyError
CounterInsert(coll) ==
    IF CounterDocs(coll) = {}
    THEN [coll |-> coll \cup {[id |-> "fc_fitting_id", c |-> 1]}, ok |-> TRUE]
    ELSE [coll |-> coll, ok |-> FALSE]

\* the metadata both allocating tasks add to their document and hand on
Metadata(w, id) == [fc_fitting_id |-> id, fc_fitting_dir |-> w]

\* a task may start: ForceConstantsToDb opens the workflow's database part,
\* the other tasks follow it
MayStart(w, t) ==
    /\ task[w] = "idle"
    /\ t \notin completed[w]
    /\ (t # "ForceConstantsToDb" => "ForceConstantsToDb" \in completed[w])

\* ForceConstantsRenormToDb.run_task, lines 446-477, in directory d:
\* thermal_data_renorm.json is loaded; for each of its temperatures the file
\* named by the unformatted pattern "force_constants_{}K.fcs" is read and its
\* second-order array, not the ForceConstants object, goes to _get_fc_fsid,
\* whose first statement calls get_fc_array on it
ReadRenormalized(d) ==
    IF d.thermal = << >>
    THEN [status |-> "FileNotFoundError", temperatures |-> << >>,
          renormalized_data |-> << >>]
    ELSE IF d.thermal[1].temperature = << >>
    THEN [status |-> "ok", temperatures |-> << >>, renormalized_data |-> << >>]
    ELSE IF ~d.fc_literal
    THEN [status |-> "FileNotFoundError", temperatures |-> << >>,
          renormalized_data |-> << >>]
    ELSE [status |-> "AttributeError", temperatures |-> << >>,
          renormalized_data |-> << >>]

\* lines 431-478 of ForceConstantsRenormToDb.run_task
RenormToDbLoad(w) ==
    /\ MayStart(w, "ForceConstantsRenormToDb")
    /\ task' = [task EXCEPT ![w] = "ForceConstantsRenormToDb"]
    /\ dpc' = [dpc EXCEPT ![w] =
                 IF ReadRenormalized(wdir[w]).status = "ok"
                 THEN "find_counter"
                 ELSE ReadRenormalized(wdir[w]).status]
    /\ UNCHANGED <<db_counter, db_lattice, db_renorm, db_kappa, fw_spec, fc_id,
                   completed, returned, wdir>>
    /\ UNCHANGED fileTaskVars

\* task t of workflow w is about to call _get_fc_fitting_id
AtFittingId(w, t) ==
    \/ t = "ForceConstantsToDb" /\ MayStart(w, t)
    \/ /\ t = "ForceConstantsRenormToDb"
       /\ task[w] = t
       /\ dpc[w] = "find_counter"

\* first operation of _get_fc_fitting_id, called by task t of workflow w
FcFind(w, t) ==
    /\ AtFittingId(w, t)
    /\ LET r == FindOneAndUpdate(db_counter)
       IN  /\ db_counter' = r.coll
           /\ fc_id' = [fc_id EXCEPT ![w] = r.ret]
           /\ IF r.ret = None
              THEN /\ dpc' = [dpc EXCEPT ![w] = "insert_counter"]
                   /\ returned' = returned
              ELSE /\ dpc' = [dpc EXCEPT ![w] = "insert_doc"]
                   /\ returned' = Append(returned, r.ret)
    /\ task' = [task EXCEPT ![w] = t]
    /\ UNCHANGED <<db_lattice, db_renorm, db_kappa, fw_spec, completed, wdir>>
    /\ UNCHANGED fileTaskVars

\* second operation, when find_one_and_update found no counter document
FcInsert(w) ==
    /\ dpc[w] = "insert_counter"
    /\ LET r == CounterInsert(db_counter)
       IN  /\ db_counter' = r.coll
           /\ IF r.ok
              THEN /\ fc_id' = [fc_id EXCEPT ![w] = 1]
                   /\ dpc' = [dpc EXCEPT ![w] = "insert_doc"]
                   /\ returned' = Append(returned, 1)
              ELSE /\ dpc' = [dpc EXCEPT ![w] = "DuplicateKeyError"]
                   /\ UNCHANGED <<fc_id, returned>>
    /\ UNCHANGED <<db_lattice, db_renorm, db_kappa, fw_spec, task, completed,
                   wdir>>
    /\ UNCHANGED fileTaskVars

\* the task inserts its document and returns FWAction(update_spec=metadata)
InsertDoc(w) ==
    /\ dpc[w] = "insert_doc"
    /\ LET data == Metadata(w, fc_id[w])
           read == ReadRenormalized(wdir[w])
       IN  /\ IF task[w] = "ForceConstantsToDb"
              THEN /\ db_lattice' = db_lattice \cup {data}
                   /\ db_renorm' = db_renorm
              ELSE /\ db_renorm' = db_renorm \cup
                         {[fc_fitting_id |-> data.fc_fitting_id,
                           fc_fitting_dir |-> data.fc_fitting_dir,
                           temperatures |-> read.temperatures,
                           renormalized_data |-> read.renormalized_data]}
                   /\ db_lattice' = db_lattice
           /\ fw_spec' = [fw_spec EXCEPT ![w] = data.fc_fitting_id]
    /\ completed' = [completed EXCEPT ![w] = @ \cup {task[w]}]
    /\ task' = [task EXCEPT ![w] = "idle"]
    /\ dpc' = [dpc EXCEPT ![w] = "idle"]
    /\ UNCHANGED <<db_counter, db_kappa, fc_id, returned, wdir>>
    /\ UNCHANGED fileTaskVars

\* the output table chosen with the RTA file tried first
KappaFileRtaFirst(present) ==
    IF "BTE.KappaTensorVsT_RTA" \in present THEN "BTE.KappaTensorVsT_RTA"
    ELSE IF "BTE.KappaTensorVsT_CONV" \in present THEN "BTE.KappaTensorVsT_CONV"
    ELSE "missing"

\* ShengBTEToDb.run_task: picks the solver's output table and inserts the
\* thermal-conductivity document with the fc_fitting_id found in fw_spec
KappaFile(present) ==
    IF "BTE.KappaTensorVsT_CONV" \in present THEN "BTE.KappaTensorVsT_CONV"
    ELSE IF "BTE.KappaTensorVsT_RTA" \in present THEN "BTE.KappaTensorVsT_RTA"
    ELSE "missing"

\* np.loadtxt(filename): a one-dimensional array for a file of one row (or
\* of none), a two-dimensional one otherwise
LoadTxt(rows) ==
    IF rows = << >> THEN [ndim |-> 1, data |-> << >>]
    ELSE IF Len(rows) = 1 THEN [ndim |-> 1, data |-> rows[1]]
    ELSE [ndim |-> 2, data |-> rows]

\* lines 617-619: bte_data[None, :] for a one-dimensional array
PadAxis(arr) ==
    IF arr.ndim = 1 THEN [ndim |-> 2, data |-> <<arr.data>>] ELSE arr

RECURSIVE Flatten(_)
Flatten(rows) == IF rows = << >> THEN << >> ELSE Head(rows) \o Flatten(Tail(rows))

\* the values grouped by nine, each group read column by column
Reshape33ColumnMajor(flat) ==
    [t \in 1..(Len(flat) \div 9) |->
        [a \in 1..3 |-> [b \in 1..3 |-> flat[9 * (t - 1) + 3 * (b - 1) + a]]]]

\* reshape(-1, 3, 3).tolist(): the values grouped by nine, each group read
\* row by row
Reshape33(flat) ==
    [t \in 1..(Len(flat) \div 9) |->
        [a \in 1..3 |-> [b \in 1..3 |-> flat[9 * (t - 1) + 3 * (a - 1) + b]]]]

\* lines 616-622 for the rows of the chosen file; indexing column 0 of an
\* array without columns raises IndexError
ParseKappa(rows) ==
    LET bte_data == PadAxis(LoadTxt(rows))
    IN  IF \E i \in DOMAIN bte_data.data : bte_data.data[i] = << >>
        THEN [status |-> "IndexError", temperatures |-> << >>, kappa |-> << >>]
        ELSE [status |-> "ok",
              temperatures |->
                  [i \in DOMAIN bte_data.data |-> bte_data.data[i][1]],
              kappa |->
                  Reshape33(Flatten([i \in DOMAIN bte_data.data |->
                                        SubSeq(bte_data.data[i], 2, 10)]))]

ShengBTEToDb(w) ==
    /\ MayStart(w, "ShengBTEToDb")
    /\ LET filename == KappaFile(DOMAIN wdir[w].kappa)
       IN  IF filename = "missing"
           THEN /\ task' = [task EXCEPT ![w] = "ShengBTEToDb"]
                /\ dpc' = [dpc EXCEPT ![w] = "RuntimeError"]
                /\ UNCHANGED <<db_kappa, completed>>
           ELSE LET parsed == ParseKappa(wdir[w].kappa[filename])
                IN  IF parsed.status # "ok"
                    THEN /\ task' = [task EXCEPT ![w] = "ShengBTEToDb"]
                         /\ dpc' = [dpc EXCEPT ![w] = parsed.status]
                         /\ UNCHANGED <<db_kappa, completed>>
                    ELSE /\ db_kappa' = db_kappa \cup
                               {[fc_fitting_id |-> fw_spec[w],
                                 shengbte_dir |-> w,
                                 temperatures |-> parsed.temperatures,
                                 lattice_thermal_conductivity |-> parsed.kappa]}
                         /\ completed' =
                               [completed EXCEPT ![w] = @ \cup {"ShengBTEToDb"}]
                         /\ UNCHANGED <<task, dpc>>
    /\ UNCHANGED <<db_counter, db_lattice, db_renorm, fw_spec, fc_id, returned,
                   wdir>>
    /\ UNCHANGED fileTaskVars

\* ------------------------------------------------------------------------
\* Specifications of the database tasks
\* ------------------------------------------------------------------------

\* a structure: the lattice it was built from, the supercell matrix applied
\* to it ("unit": none) and the displacement pattern (0: no displacement)
NoStructure == [base |-> "none", scell |-> "none", disp |-> 0]

NoStructureData ==
    [structure |-> NoStructure, supercell_structure |-> NoStructure,
     supercell_matrix |-> "none"]

\* a local name of run_task that no assignment has bound yet
Unbound == -1

\* what the renormalization oracle hands back: None, or a record
NullResult ==
    [kind |-> "None", temperature |-> << >>, n_imaginary |-> 0,
     fcs |-> << >>, param |-> << >>, thermal_expansion |-> << >>]

\* the loop variable before the first iteration, a result not yet returned
Unassigned == [NullResult EXCEPT !.kind = "unassigned"]

\* RunHiPhiveRenorm has not started
IdleRenorm ==
    /\ module_names = {}
    /\ T_renorm = << >>
    /\ renorm_results = << >>
    /\ pass1_results = << >>
    /\ submitted = 0
    /\ inflight = {}
    /\ idx = 0
    /\ result = Unassigned
    /\ T = Unbound
    /\ T_real = << >>
    /\ cte_real = << >>
    /\ fcs_real = << >>
    /\ param_real = << >>
    /\ thermal_data = << >>
    /\ tfiles = << >>

\* RunShengBTE has not started
IdleBte ==
    /\ bte_temperature = [kind |-> "none", value |-> 0]
    /\ self_t = << >>
    /\ open_files = {}
    /\ return_code = << >>
    /\ error_path = "none"

\* RunMultiwfn_QTAIM has not started
IdleMw ==
    /\ mw_in = [wfn_file |-> << >>, molecule |-> "None",
                prev_calc_molecule |-> "None", files |-> << >>]
    /\ wfn = << >>
    /\ compress_at_end = FALSE
    /\ mw_files = << >>

\* no firetask is running in a working directory
IdleFileTasks ==
    /\ IdleRenorm
    /\ IdleBte
    /\ IdleMw
    /\ pc = "idle"
    /\ error = "none"
    /\ cwd = {}
    /\ calls = << >>
    /\ fw_in = [has_perturbed_tasks |-> FALSE, perturbed_tasks |-> << >>,
                calc_locs |-> << >>]
    /\ results = << >>
    /\ structure = NoStructure
    /\ supercell_matrix = "none"
    /\ supercell_structure = NoStructure
    /\ structure_data = NoStructureData
    /\ cutoffs = "None"
    /\ bulk_modulus = "None"
    /\ fcs = "unset"
    /\ n_imaginary = -1
    /\ widx = 0

\* bounds on the files a working directory holds: the rows of an output
\* table, the temperatures listed in thermal_data_renorm.json
MaxRows == 2
MaxRenormDbTemps == 2

KappaRowTemps == {100, 300}

RenormDbTemps == {100, 200}

\* a row of BTE.KappaTensorVsT_*: the temperature and nine tensor components
KappaRow(temp) == <<temp>> \o [c \in 1..9 |-> temp + c]

KappaTables == SeqsUpTo({KappaRow(temp) : temp \in KappaRowTemps}, MaxRows)

\* the output tables a directory can hold, each with rows from tables
KappaFilesOf(tables) == UNION {[present -> tables] : present \in SUBSET BteOutputs}

\* thermal_data_renorm.json: absent, or holding a list of temperatures
ThermalFiles ==
    {<< >>} \cup {<<[temperature |-> l]>> :
                    l \in SeqsUpTo(RenormDbTemps, MaxRenormDbTemps)}

\* a directory without any of the files the database tasks look for:
\* kappa maps the output tables present to their rows, thermal is
\* <<thermal_data_renorm.json>> or << >>, fc_temps the temperatures T with a
\* file force_constants_{T}K.fcs, fc_literal whether a file with the
\* unformatted name force_constants_{}K.fcs exists
EmptyDir ==
    [kappa |-> << >>, thermal |-> << >>, fc_temps |-> {}, fc_literal |-> FALSE]

\* directories as the renormalization leaves them: the force constants of
\* every listed temperature, one-row output tables
DbDirs ==
    {[kappa |-> k, thermal |-> <<[temperature |-> l]>>,
      fc_temps |-> Range(l), fc_literal |-> FALSE] :
        k \in KappaFilesOf({<<KappaRow(300)>>}),
        l \in SeqsUpTo(RenormDbTemps, 1)}

\* directories that differ in their output tables only
KappaDirs ==
    {[EmptyDir EXCEPT !.kappa = k] : k \in KappaFilesOf(KappaTables)}

\* directories that differ in the renormalization files only
RenormDbDirs ==
    {[kappa |-> << >>, thermal |-> th, fc_temps |-> ts, fc_literal |-> lit] :
        th \in ThermalFiles, ts \in SUBSET RenormDbTemps, lit \in BOOLEAN}

\* a database without documents, no database task running
EmptyDb ==
    /\ db_counter = {}
    /\ db_lattice = {}
    /\ db_renorm = {}
    /\ db_kappa = {}
    /\ fw_spec = [w \in Wf |-> None]
    /\ task = [w \in Wf |-> "idle"]
    /\ dpc = [w \in Wf |-> "idle"]
    /\ fc_id = [w \in Wf |-> None]
    /\ completed = [w \in Wf |-> {}]
    /\ returned = << >>

\* the database part of a run of one file-writing firetask
IdleDb ==
    /\ EmptyDb
    /\ wdir = [w \in Wf |-> EmptyDir]

\* every workflow's directory holds a copy of the same files
InitDbEmpty ==
    /\ EmptyDb
    /\ \E d \in DbDirs : wdir = [w \in Wf |-> d]
    /\ IdleFileTasks

\* the database once ForceConstantsToDb has run in workflow 1, 2, ... in turn
FittedDb ==
    /\ db_counter = {[id |-> "fc_fitting_id", c |-> NumWf]}
    /\ db_lattice = {Metadata(w, w) : w \in Wf}
    /\ db_renorm = {}
    /\ db_kappa = {}
    /\ fw_spec = [w \in Wf |-> w]
    /\ task = [w \in Wf |-> "idle"]
    /\ dpc = [w \in Wf |-> "idle"]
    /\ fc_id = [w \in Wf |-> w]
    /\ completed = [w \in Wf |-> {"ForceConstantsToDb"}]
    /\ returned = [w \in Wf |-> w]

\* workflows interleave at the level of single database operations
NextDb ==
    \E w \in Wf :
        \/ \E t \in AllocTasks : FcFind(w, t)
        \/ FcInsert(w)
        \/ InsertDoc(w)
        \/ RenormToDbLoad(w)
        \/ ShengBTEToDb(w)

SpecDb == InitDbEmpty /\ [][NextDb]_vars

\* one database task at a time: a task starts only when no other is running
NoTaskRunning == \A w \in Wf : task[w] = "idle"

NextSeq ==
    \E w \in Wf :
        \/ NoTaskRunning /\ FcFind(w, "ForceConstantsToDb")
        \/ NoTaskRunning /\ RenormToDbLoad(w)
        \/ FcFind(w, "ForceConstantsRenormToDb")
        \/ FcInsert(w)
        \/ InsertDoc(w)
        \/ NoTaskRunning /\ ShengBTEToDb(w)

SpecSeq == InitDbEmpty /\ [][NextSeq]_vars

\* ShengBTEToDb in every workflow, after the fitting documents are stored
InitKappa ==
    /\ FittedDb
    /\ \E d \in KappaDirs : wdir = [w \in Wf |-> d]
    /\ IdleFileTasks

NextKappa == \E w \in Wf : ShengBTEToDb(w)

SpecKappa == InitKappa /\ [][NextKappa]_vars

\* ForceConstantsRenormToDb in every workflow, interleaved at the level of
\* single database operations, after the fitting documents are stored
InitRenormDb ==
    /\ FittedDb
    /\ \E d \in RenormDbDirs : wdir = [w \in Wf |-> d]
    /\ IdleFileTasks

NextRenormDb ==
    \E w \in Wf :
        \/ RenormToDbLoad(w)
        \/ FcFind(w, "ForceConstantsRenormToDb")
        \/ InsertDoc(w)

SpecRenormDb == InitRenormDb /\ [][NextRenormDb]_vars

\* ------------------------------------------------------------------------
\* Properties of the fitting-id counter and the database tasks
\* ------------------------------------------------------------------------

NoDuplicates(seq) ==
    \A i, j \in 1..Len(seq) : i # j => seq[i] # seq[j]

Consecutive(S) ==
    S = {} \/ \E lo \in S : S = lo..(lo + Cardinality(S) - 1)

\* C1: invocations of _get_fc_fitting_id interleaved at the level of single
\* database operations, the counter document absent at the start: every
\* invocation returns (none ends in an exception), and the returned ids are
\* distinct consecutive integers.
C1_ConcurrentIdsDistinctConsecutive ==
    /\ \A w \in Wf : dpc[w] # "DuplicateKeyError"
    /\ NoDuplicates(returned)
    /\ Consecutive(Range(returned))

\* C2: strictly sequential invocations starting without a counter document:
\* the i-th invocation returns i, and the counter document then holds the
\* number of invocations that returned.
C2_SequentialIds ==
    /\ \A i \in 1..Len(returned) : returned[i] = i
    /\ db_counter = IF returned = << >> THEN {}
                    ELSE {[id |-> "fc_fitting_id", c |-> Len(returned)]}

C2_Witness ==
    /\ Len(returned) >= 3
    /\ NoTaskRunning
    /\ db_counter = {[id |-> "fc_fitting_id", c |-> Len(returned)]}

\* C3: within one workflow (one working directory) the renormalization
\* document and the thermal-conductivity document carry the fc_fitting_id of
\* the document ForceConstantsToDb inserted for that workflow.
C3_DerivedDocsShareFittingId ==
    /\ \A d \in db_renorm : \E l \in db_lattice :
          /\ l.fc_fitting_dir = d.fc_fitting_dir
          /\ l.fc_fitting_id = d.fc_fitting_id
    /\ \A k \in db_kappa : \E l \in db_lattice :
          /\ l.fc_fitting_dir = k.shengbte_dir
          /\ l.fc_fitting_id = k.fc_fitting_id

\* ------------------------------------------------------------------------
\* CollectPerturbedStructures.run_task
\* ------------------------------------------------------------------------

\* bounds on the inputs of the task
MaxSamples == 2
MaxCalcLocs == 2

Bases == {"A", "B"}
Matrices == {"M1", "M2"}
LocNames == {"structure optimization", "static", "optics"}
LocPaths == {"/run/opt1", "/run/opt2"}

\* the characters of the strings that are searched
Chars(str) ==
    CASE str = "optimiz" -> <<"o","p","t","i","m","i","z">>
      [] str = "structure optimization" ->
            <<"s","t","r","u","c","t","u","r","e"," ",
              "o","p","t","i","m","i","z","a","t","i","o","n">>
      [] str = "static" -> <<"s","t","a","t","i","c">>
      [] str = "optics" -> <<"o","p","t","i","c","s">>

\* Python's `sub in str`
Contains(sub, str) ==
    \E i \in 0..(Len(Chars(str)) - Len(Chars(sub))) :
        SubSeq(Chars(str), i + 1, i + Len(Chars(sub))) = Chars(sub)

\* fw_spec.get(key, []) for the two list-valued keys
GetPerturbedTasks(spec) ==
    IF spec.has_perturbed_tasks THEN spec.perturbed_tasks ELSE << >>

\* [c for c in calc_locs if "optimiz" in c["name"]]
OptCalcLocs(calc_locs) ==
    SelectSeq(calc_locs, LAMBDA c : Contains("optimiz", c.name))

\* opt_calc_locs[0]: the first matching entry
FirstOf(seq) == seq[1]

\* opt_calc_locs[-1]
LastOf(seq) == seq[Len(seq)]

\* VaspDrone(...).assimilate(path)["calcs_reversed"][0]["output"]["structure"]:
\* the relaxed structure found in directory `path`
OptStructure(path) == [base |-> path, scell |-> "unit", disp |-> 0]

\* SupercellTransformation(matrix).apply_transformation(s)
ApplyTransformation(matrix, s) == [s EXCEPT !.scell = matrix]

\* a test for the empty list that never succeeds
NoPerturbedTasksNever(res) == Len(res) < 0

\* len(results) == 0
NoPerturbedTasks(res) == Len(res) = 0

CollectOutputs ==
    {"perturbed_structures.json", "perturbed_forces.json", "structure_data.json"}

\* lines 76-82
CollectCheck ==
    /\ pc = "collect_start"
    /\ results' = GetPerturbedTasks(fw_in)
    /\ IF NoPerturbedTasks(GetPerturbedTasks(fw_in))
       THEN pc' = "failed" /\ error' = "RuntimeError"
       ELSE pc' = "collect_select" /\ error' = error
    /\ UNCHANGED <<cwd, calls, fw_in, structure, supercell_matrix,
                   supercell_structure, structure_data>>
    /\ UNCHANGED <<dbVars, hiphiveVars, renormVars, bteVars, mwVars>>

\* lines 84-101
CollectSelect ==
    /\ pc = "collect_select"
    /\ IF Len(results) = 0
       THEN /\ pc' = "failed" /\ error' = "IndexError"
            /\ UNCHANGED <<calls, structure, supercell_matrix>>
       ELSE /\ LET opt_calc_locs == OptCalcLocs(fw_in.calc_locs)
               IN  IF opt_calc_locs # << >>
                   THEN LET opt_loc == LastOf(opt_calc_locs).path
                        IN  /\ calls' = Append(calls, <<"assimilate", opt_loc>>)
                            /\ structure' = OptStructure(opt_loc)
                   ELSE /\ calls' = calls
                        /\ structure' = results[1].parent_structure
            /\ supercell_matrix' = results[1].supercell_matrix
            /\ pc' = "collect_transform" /\ error' = error
    /\ UNCHANGED <<cwd, fw_in, results, supercell_structure, structure_data>>
    /\ UNCHANGED <<dbVars, hiphiveVars, renormVars, bteVars, mwVars>>

\* lines 103-111
CollectTransform ==
    /\ pc = "collect_transform"
    /\ supercell_structure' = ApplyTransformation(supercell_matrix, structure)
    /\ pc' = "collect_dump_structures"
    /\ UNCHANGED <<error, cwd, calls, fw_in, results, structure,
                   supercell_matrix, structure_data>>
    /\ UNCHANGED <<dbVars, hiphiveVars, renormVars, bteVars, mwVars>>

\* lines 113-116: the three dumpfn calls, one file each
CollectDump ==
    /\ \/ /\ pc = "collect_dump_structures"
          /\ cwd' = cwd \cup {"perturbed_structures.json"}
          /\ pc' = "collect_dump_forces"
          /\ structure_data' = structure_data
       \/ /\ pc = "collect_dump_forces"
          /\ cwd' = cwd \cup {"perturbed_forces.json"}
          /\ pc' = "collect_dump_structure_data"
          /\ structure_data' = structure_data
       \/ /\ pc = "collect_dump_structure_data"
          /\ cwd' = cwd \cup {"structure_data.json"}
          /\ structure_data' =
                [structure |-> structure,
                 supercell_structure |-> supercell_structure,
                 supercell_matrix |-> supercell_matrix]
          /\ pc' = "done"
    /\ UNCHANGED <<error, calls, fw_in, results, structure, supercell_matrix,
                   supercell_structure>>
    /\ UNCHANGED <<dbVars, hiphiveVars, renormVars, bteVars, mwVars>>

\* sample i: its parent structure, its supercell matrix and the perturbed
\* supercell (displacement pattern i) it was computed for
Sample(base, matrix, i) ==
    [parent_structure |-> [base |-> base, scell |-> "unit", disp |-> 0],
     supercell_matrix |-> matrix,
     structure |-> [base |-> base, scell |-> matrix, disp |-> i]]

SampleLists ==
    {[i \in DOMAIN c |-> Sample(c[i][1], c[i][2], i)] :
        c \in SeqsUpTo(Bases \X Matrices, MaxSamples)}

CalcLocLists ==
    {[i \in DOMAIN c |-> [name |-> c[i][1], path |-> c[i][2]]] :
        c \in SeqsUpTo(LocNames \X LocPaths, MaxCalcLocs)}

InitCollect ==
    /\ IdleDb
    /\ pc = "collect_start"
    /\ error = "none"
    /\ cwd = {}
    /\ calls = << >>
    /\ \E has \in BOOLEAN, tasks \in SampleLists, locs \in CalcLocLists :
          /\ (~has => tasks = << >>)
          /\ fw_in = [has_perturbed_tasks |-> has, perturbed_tasks |-> tasks,
                      calc_locs |-> locs]
    /\ results = << >>
    /\ structure = NoStructure
    /\ supercell_matrix = "none"
    /\ supercell_structure = NoStructure
    /\ structure_data = NoStructureData
    /\ cutoffs = "None"
    /\ bulk_modulus = "None"
    /\ fcs = "unset"
    /\ n_imaginary = -1
    /\ widx = 0
    /\ IdleRenorm
    /\ IdleBte
    /\ IdleMw

NextCollect == CollectCheck \/ CollectSelect \/ CollectTransform \/ CollectDump

SpecCollect == InitCollect /\ [][NextCollect]_vars

\* C6: with no perturbed_tasks key, or an empty list, the task fails with
\* an error before anything else: none of the three files is written and no
\* optimization directory is parsed.
C6_EmptyInputFails ==
    (~fw_in.has_perturbed_tasks \/ fw_in.perturbed_tasks = << >>) =>
        /\ pc \in {"collect_start", "failed"}
        /\ (pc = "failed" => error = "RuntimeError")
        /\ cwd \cap CollectOutputs = {}
        /\ calls = << >>
        /\ structure_data = NoStructureData

C6_Witness ==
    /\ pc = "failed"
    /\ error = "RuntimeError"
    /\ fw_in.has_perturbed_tasks
    /\ fw_in.perturbed_tasks = << >>
    /\ \E i \in DOMAIN fw_in.calc_locs : Contains("optimiz", fw_in.calc_locs[i].name)

\* the positions of the calc_locs entries whose name contains "optimiz"
MatchingLocs == {i \in DOMAIN fw_in.calc_locs :
                    fw_in.calc_locs[i].name = "structure optimization"}

\* the canonical parent structure: the relaxed structure of the last
\* matching optimization entry, else the first sample's parent structure
CanonicalParent ==
    IF MatchingLocs = {}
    THEN fw_in.perturbed_tasks[1].parent_structure
    ELSE LET last == CHOOSE i \in MatchingLocs : \A j \in MatchingLocs : j <= i
         IN  [base |-> fw_in.calc_locs[last].path, scell |-> "unit", disp |-> 0]

MaxImaginary == 2

HiPhiveInputs ==
    {"perturbed_structures.json", "perturbed_forces.json", "structure_data.json"}

\* the artifacts written whatever the number of imaginary modes, in order
HiPhiveWrites ==
    <<"fitting_data.json", "thermal_data_qha.json", "force_constants.fcs",
      "parameters.txt", "cluster_space.cs">>

\* the ShengBTE exports, in order
ShengBTEWrites == <<"FORCE_CONSTANTS_3RD", "FORCE_CONSTANTS_2ND">>

\* a test for None that never succeeds
FittingFailedNever(f) == f = "unset"

\* `fcs is None` after fit_force_constants
FittingFailed(f) == f = "None"

\* the exports are written whatever the number of imaginary modes
NoImaginaryModesAlways(n) == n >= 0

\* fitting_data["n_imaginary"] == 0
NoImaginaryModes(n) == n = 0

\* lines 151-172: the three inputs are read, trial cutoffs are generated
\* when none are given
HiPhiveLoad ==
    /\ pc = "hiphive_start"
    /\ HiPhiveInputs \subseteq cwd
    /\ calls' = IF cutoffs = "None" THEN Append(calls, <<"get_cutoffs">>)
                ELSE calls
    /\ pc' = "hiphive_fit"
    /\ UNCHANGED <<error, cwd>>
    /\ UNCHANGED <<dbVars, collectVars, hiphiveVars, renormVars, bteVars, mwVars>>

\* lines 174-188: the fitting oracle returns force constants or None
HiPhiveFit ==
    /\ pc = "hiphive_fit"
    /\ \E f \in {"None", "fcs"} :
          /\ fcs' = f
          /\ IF FittingFailed(f)
             THEN pc' = "failed" /\ error' = "RuntimeError"
             ELSE pc' = "hiphive_harmonic" /\ error' = error
    /\ calls' = Append(calls, <<"fit_force_constants">>)
    /\ UNCHANGED <<cwd, cutoffs, bulk_modulus, n_imaginary, widx>>
    /\ UNCHANGED <<dbVars, collectVars, renormVars, bteVars, mwVars>>

\* lines 190-192
HiPhiveHarmonic ==
    /\ pc = "hiphive_harmonic"
    /\ \E n \in 0..MaxImaginary : n_imaginary' = n
    /\ calls' = Append(calls, <<"harmonic_properties">>)
    /\ pc' = "hiphive_anharmonic"
    /\ UNCHANGED <<error, cwd, cutoffs, bulk_modulus, fcs, widx>>
    /\ UNCHANGED <<dbVars, collectVars, renormVars, bteVars, mwVars>>

\* lines 193-199
HiPhiveAnharmonic ==
    /\ pc = "hiphive_anharmonic"
    /\ calls' = Append(calls, <<"anharmonic_properties">>)
    /\ pc' = "hiphive_write"
    /\ UNCHANGED <<error, cwd>>
    /\ UNCHANGED <<dbVars, collectVars, hiphiveVars, renormVars, bteVars, mwVars>>

\* lines 200-207: one artifact per step
HiPhiveWrite ==
    /\ pc = "hiphive_write"
    /\ widx < Len(HiPhiveWrites)
    /\ cwd' = cwd \cup {HiPhiveWrites[widx + 1]}
    /\ widx' = widx + 1
    /\ UNCHANGED <<pc, error, calls, cutoffs, bulk_modulus, fcs, n_imaginary>>
    /\ UNCHANGED <<dbVars, collectVars, renormVars, bteVars, mwVars>>

\* line 209: the exports are written only without imaginary modes
HiPhiveBranch ==
    /\ pc = "hiphive_write"
    /\ widx = Len(HiPhiveWrites)
    /\ pc' = IF NoImaginaryModes(n_imaginary) THEN "hiphive_export" ELSE "done"
    /\ widx' = 0
    /\ UNCHANGED <<error, cwd, calls, cutoffs, bulk_modulus, fcs, n_imaginary>>
    /\ UNCHANGED <<dbVars, collectVars, renormVars, bteVars, mwVars>>

\* lines 210-213: one export per step
HiPhiveExport ==
    /\ pc = "hiphive_export"
    /\ cwd' = cwd \cup {ShengBTEWrites[widx + 1]}
    /\ widx' = widx + 1
    /\ pc' = IF widx + 1 = Len(ShengBTEWrites) THEN "done" ELSE pc
    /\ UNCHANGED <<error, calls, cutoffs, bulk_modulus, fcs, n_imaginary>>
    /\ UNCHANGED <<dbVars, collectVars, renormVars, bteVars, mwVars>>

InitHiPhive ==
    /\ IdleDb
    /\ pc = "hiphive_start"
    /\ error = "none"
    /\ cwd = HiPhiveInputs
    /\ calls = << >>
    /\ fw_in = [has_perturbed_tasks |-> FALSE, perturbed_tasks |-> << >>,
                calc_locs |-> << >>]
    /\ results = << >>
    /\ structure = NoStructure
    /\ supercell_matrix = "none"
    /\ supercell_structure = NoStructure
    /\ \E base \in Bases, matrix \in Matrices :
          structure_data =
             [structure |-> [base |-> base, scell |-> "unit", disp |-> 0],
              supercell_structure |-> [base |-> base, scell |-> matrix, disp |-> 0],
              supercell_matrix |-> matrix]
    /\ cutoffs \in {"None", "given"}
    /\ bulk_modulus \in {"None", "given"}
    /\ fcs = "unset"
    /\ n_imaginary = -1
    /\ widx = 0
    /\ IdleRenorm
    /\ IdleBte
    /\ IdleMw

NextHiPhive ==
    \/ HiPhiveLoad
    \/ HiPhiveFit
    \/ HiPhiveHarmonic
    \/ HiPhiveAnharmonic
    \/ HiPhiveWrite
    \/ HiPhiveBranch
    \/ HiPhiveExport

SpecHiPhive == InitHiPhive /\ [][NextHiPhive]_vars

\* C4: when fit_force_constants returns no force constants the task fails
\* with an error and leaves the working directory as it was: none of the
\* seven artifacts is written and neither property oracle is called.
C4_NullFitIsFatal ==
    fcs = "None" =>
        /\ pc = "failed"
        /\ error = "RuntimeError"
        /\ cwd = HiPhiveInputs
        /\ <<"harmonic_properties">> \notin Range(calls)
        /\ <<"anharmonic_properties">> \notin Range(calls)

C4_Witness ==
    /\ fcs = "None"
    /\ pc = "failed"
    /\ <<"fit_force_constants">> \in Range(calls)

\* C5: after a run that completes, FORCE_CONSTANTS_3RD and
\* FORCE_CONSTANTS_2ND are both written when n_imaginary = 0 and neither is
\* written otherwise; in both cases the task ends without error and the
\* five other artifacts are written.
C5_ExportsIffNoImaginaryModes ==
    pc = "done" =>
        /\ error = "none"
        /\ Range(HiPhiveWrites) \subseteq cwd
        /\ (n_imaginary = 0 => Range(ShengBTEWrites) \subseteq cwd)
        /\ (n_imaginary # 0 => Range(ShengBTEWrites) \cap cwd = {})

C5_Witness ==
    /\ pc = "done"
    /\ n_imaginary > 0
    /\ Range(HiPhiveWrites) \subseteq cwd
    /\ "FORCE_CONSTANTS_3RD" \notin cwd

\* ------------------------------------------------------------------------
\* RunHiPhiveRenorm.run_task
\* ------------------------------------------------------------------------

\* number of temperatures that can be requested: 0, 100, 200, ...
NumTemps == 3

Temps == {100 * i : i \in 0..(NumTemps - 1)}

\* Parallel(n_jobs=2, ...)
NJobs == 2

\* names run_task reads that the file neither imports, defines nor assigns:
\* they resolve only if something else bound them in the module
FreeNames == {"nconfig", "conv_thresh", "thermal_expansion", "setup_TE_renorm"}

thermal_keys ==
    {"temperature", "free_energy", "entropy", "heat_capacity", "gruneisen",
     "thermal_expansion", "expansion_ratio"}

\* the record the renormalization oracle returns for temperature temp in
\* pass p, with n imaginary modes: one-element lists, as the task reads them
RenormRecord(temp, n, p) ==
    [kind |-> "record", temperature |-> <<temp>>, n_imaginary |-> n,
     fcs |-> <<[of |-> "fcs", T |-> temp, pass |-> p]>>,
     param |-> <<[of |-> "param", T |-> temp, pass |-> p]>>,
     thermal_expansion |-> <<[of |-> "cte", T |-> temp, pass |-> p]>>]

\* renormalization(..., T, ...): None, a record with imaginary modes or a
\* record without
Renormalization(temp, p) ==
    {NullResult, RenormRecord(temp, 1, p), RenormRecord(temp, 0, p)}

\* the file name "<stem>_{}K<ext>".format(T)
FileNameT(stem, temp) == [name |-> stem, T |-> temp]

\* the branch of lines 274-284 a first-pass result takes; a result without
\* the null test would reach the direct-write branch
ClassifyNoNullTest(res, bm) ==
    IF res.kind = "None" \/ res.n_imaginary > 0 \/ bm = "None"
    THEN "direct" ELSE "real"

\* the branch of lines 274-284 a first-pass result takes
Classify(res, bm) ==
    IF res.kind = "None" THEN "skip"
    ELSE IF res.n_imaginary > 0 \/ bm = "None" THEN "direct"
    ELSE "real"

\* the positions in their given order
ArgSortIdentity(seq) == [i \in 1..Len(seq) |-> i]

\* np.argsort(np.array(seq)): the positions of seq in ascending order of
\* their values
ArgSort(seq) ==
    [i \in 1..Len(seq) |->
        CHOOSE j \in 1..Len(seq) :
            Cardinality({k \in 1..Len(seq) :
                            seq[k] < seq[j] \/ (seq[k] = seq[j] /\ k < j)}) = i - 1]

\* the list left in its order
TakeInOrder(seq, ind) == seq

\* list(np.array(seq)[ind])
Take(seq, ind) == [i \in 1..Len(ind) |-> seq[ind[i]]]

\* the temperatures of the running pass, in submission order
PassTemps == IF pc = "renorm_pass1" THEN T_renorm ELSE T_real

PassNo == IF pc = "renorm_pass1" THEN 1 ELSE 2

Pending(n) == [i \in 1..n |-> Unassigned]

\* setup_TE_renorm(parent_structure, T_real, dLfrac_real): for each
\* temperature of temps, in their order, the expanded structure and the
\* cluster space and force constants built on it
SetupTERenorm(temps) ==
    [parent_structure_TE |->
        [t \in DOMAIN temps |-> [of |-> "parent_structure_TE", T |-> temps[t]]],
     cs_TE |-> [t \in DOMAIN temps |-> [of |-> "cs_TE", T |-> temps[t]]],
     fcs_TE |-> [t \in DOMAIN temps |-> [of |-> "fcs_TE", T |-> temps[t]]]]

\* the structure, cluster space and force constants given to call t of the
\* running pass: lines 266 and 298
CallArgs(t) ==
    IF pc = "renorm_pass1"
    THEN [structure |-> [of |-> "parent_structure", T |-> Unbound],
          cs |-> [of |-> "cs", T |-> Unbound],
          fcs |-> [of |-> "fcs", T |-> Unbound]]
    ELSE [structure |-> SetupTERenorm(T_real).parent_structure_TE[t],
          cs |-> SetupTERenorm(T_real).cs_TE[t],
          fcs |-> SetupTERenorm(T_real).fcs_TE[t]]

\* lines 265-267 and 297-299: Parallel hands the next call to a free worker
RenormSubmit ==
    /\ pc \in {"renorm_pass1", "renorm_pass2"}
    /\ submitted < Len(PassTemps)
    /\ Cardinality(inflight) < NJobs
    /\ IF {"nconfig", "conv_thresh"} \subseteq module_names
       THEN /\ submitted' = submitted + 1
            /\ inflight' = inflight \cup {submitted + 1}
            /\ calls' = Append(calls, <<"renormalization", PassNo,
                                        submitted + 1, PassTemps[submitted + 1],
                                        CallArgs(submitted + 1)>>)
            /\ UNCHANGED <<pc, error>>
       ELSE /\ pc' = "failed"
            /\ error' = "NameError"
            /\ UNCHANGED <<submitted, inflight, calls>>
    /\ cwd' = cwd
    /\ UNCHANGED <<module_names, T_renorm, renorm_results, pass1_results, idx, result, T,
                   T_real, cte_real, fcs_real, param_real, thermal_data, tfiles>>
    /\ UNCHANGED <<dbVars, collectVars, hiphiveVars, bteVars, mwVars>>

\* a worker returns; its result takes the place of its call
RenormComplete ==
    /\ pc \in {"renorm_pass1", "renorm_pass2"}
    /\ \E i \in inflight : \E r \in Renormalization(PassTemps[i], PassNo) :
          /\ renorm_results' = [renorm_results EXCEPT ![i] = r]
          /\ inflight' = inflight \ {i}
    /\ UNCHANGED <<pc, error, cwd, calls>>
    /\ UNCHANGED <<module_names, T_renorm, pass1_results, submitted, idx, result, T,
                   T_real, cte_real, fcs_real, param_real, thermal_data, tfiles>>
    /\ UNCHANGED <<dbVars, collectVars, hiphiveVars, bteVars, mwVars>>

\* every call of the running pass has been handed to a worker
AllSubmitted == submitted = Len(PassTemps)

\* every call of the running pass has returned
AllReturned == submitted = Len(PassTemps) /\ inflight = {}

\* Parallel(...) returns the list once every call has returned
RenormCollect ==
    /\ pc \in {"renorm_pass1", "renorm_pass2"}
    /\ AllReturned
    /\ IF pc = "renorm_pass1"
       THEN /\ pc' = "renorm_partition"
            /\ pass1_results' = renorm_results
            /\ thermal_data' = thermal_data
       ELSE /\ pc' = "renorm_write"
            /\ pass1_results' = pass1_results
            /\ thermal_data' = [k \in thermal_keys |-> << >>]
    /\ idx' = 1
    /\ UNCHANGED <<error, cwd, calls>>
    /\ UNCHANGED <<module_names, T_renorm, renorm_results, submitted, inflight, result, T,
                   T_real, cte_real, fcs_real, param_real, tfiles>>
    /\ UNCHANGED <<dbVars, collectVars, hiphiveVars, bteVars, mwVars>>

\* lines 278-279 and 289-290: the two files named after local T, holding
\* the first force constants and parameters of res
WriteAtT(res) ==
    <<[file |-> FileNameT("force_constants", T), data |-> res.fcs[1]],
      [file |-> FileNameT("parameters", T), data |-> res.param[1]]>>

\* lines 273-284: one iteration of the first loop
RenormPartition ==
    /\ pc = "renorm_partition"
    /\ idx <= Len(renorm_results)
    /\ result' = renorm_results[idx]
    /\ LET res == renorm_results[idx]
           branch == Classify(res, bulk_modulus)
       IN  CASE branch = "skip" ->
                  /\ idx' = idx + 1
                  /\ UNCHANGED <<pc, error, tfiles, T_real, cte_real,
                                 fcs_real, param_real>>
             [] branch = "real" ->
                  /\ T_real' = T_real \o res.temperature
                  /\ cte_real' = cte_real \o res.thermal_expansion
                  /\ fcs_real' = fcs_real \o res.fcs
                  /\ param_real' = param_real \o res.param
                  /\ idx' = idx + 1
                  /\ UNCHANGED <<pc, error, tfiles>>
             [] OTHER ->
                  /\ IF res.kind = "None"
                     THEN pc' = "failed" /\ error' = "TypeError"
                                         /\ tfiles' = tfiles /\ idx' = idx
                     ELSE IF T = Unbound
                     THEN pc' = "failed" /\ error' = "UnboundLocalError"
                                         /\ tfiles' = tfiles /\ idx' = idx
                     ELSE pc' = pc /\ error' = error
                                   /\ tfiles' = tfiles \o WriteAtT(res)
                                   /\ idx' = idx + 1
                  /\ UNCHANGED <<T_real, cte_real, fcs_real, param_real>>
    /\ UNCHANGED <<cwd, calls>>
    /\ UNCHANGED <<module_names, T_renorm, renorm_results, pass1_results, submitted,
                   inflight, T, thermal_data>>
    /\ UNCHANGED <<dbVars, collectVars, hiphiveVars, bteVars, mwVars>>

\* lines 285-296, after the first loop
RenormBranch ==
    /\ pc = "renorm_partition"
    /\ idx > Len(renorm_results)
    /\ IF Len(T_real) = 0
       THEN /\ pc' = "done"
            /\ UNCHANGED <<error, calls, tfiles, T_real, cte_real,
                           renorm_results, submitted>>
       ELSE IF Len(T_real) = 1 /\ T_real[1] = 0
       THEN /\ IF result.kind = "None"
               THEN pc' = "failed" /\ error' = "TypeError" /\ tfiles' = tfiles
               ELSE IF T = Unbound
               THEN pc' = "failed" /\ error' = "UnboundLocalError"
                                   /\ tfiles' = tfiles
               ELSE pc' = "done" /\ error' = error
                                 /\ tfiles' = tfiles \o WriteAtT(result)
            /\ UNCHANGED <<calls, T_real, cte_real, renorm_results, submitted>>
       ELSE /\ LET ind == ArgSort(T_real)
                   te == <<"thermal_expansion", Take(T_real, ind),
                           Take(cte_real, ind)>>
                   setup == <<"setup_TE_renorm", Take(T_real, ind)>>
               IN  /\ T_real' = Take(T_real, ind)
                   /\ cte_real' = Take(cte_real, ind)
                   /\ IF "thermal_expansion" \notin module_names
                      THEN /\ pc' = "failed" /\ error' = "NameError"
                           /\ UNCHANGED <<calls, renorm_results, submitted>>
                      ELSE IF "setup_TE_renorm" \notin module_names
                      THEN /\ pc' = "failed" /\ error' = "NameError"
                           /\ calls' = Append(calls, te)
                           /\ UNCHANGED <<renorm_results, submitted>>
                      ELSE /\ pc' = "renorm_pass2" /\ error' = error
                           /\ calls' = calls \o <<te, setup>>
                           /\ renorm_results' = Pending(Len(T_real))
                           /\ submitted' = 0
            /\ tfiles' = tfiles
    /\ UNCHANGED <<cwd>>
    /\ UNCHANGED <<module_names, T_renorm, pass1_results, inflight, idx, result, T,
                   fcs_real, param_real, thermal_data>>
    /\ UNCHANGED <<dbVars, collectVars, hiphiveVars, bteVars, mwVars>>

\* result[key][0] of a record: the first value the oracle returned under key
ResultAt(res, key) ==
    CASE key = "temperature" -> res.temperature[1]
      [] key = "thermal_expansion" -> res.thermal_expansion[1]
      [] OTHER -> [of |-> key, T |-> res.temperature[1], pass |-> res.fcs[1].pass]

\* lines 305-318: one iteration of the second loop
RenormWrite ==
    /\ pc = "renorm_write"
    /\ idx <= Len(renorm_results)
    /\ result' = renorm_results[idx]
    /\ LET res == renorm_results[idx]
       IN  IF res.kind = "None"
           THEN /\ pc' = "failed" /\ error' = "TypeError"
                /\ UNCHANGED <<T, tfiles, thermal_data, idx>>
           ELSE /\ T' = res.temperature[1]
                /\ tfiles' = tfiles \o
                     <<[file |-> FileNameT("force_constants", res.temperature[1]),
                        data |-> res.fcs[1]],
                       [file |-> FileNameT("parameters", res.temperature[1]),
                        data |-> res.param[1]]>> \o
                     (IF res.n_imaginary > 0 THEN << >>
                      ELSE <<[file |-> FileNameT("FORCE_CONSTANTS_2ND",
                                                 res.temperature[1]),
                              data |-> res.fcs[1]]>>)
                /\ thermal_data' =
                     [k \in DOMAIN thermal_data |->
                         Append(thermal_data[k], ResultAt(res, k))]
                /\ idx' = idx + 1
                /\ UNCHANGED <<pc, error>>
    /\ UNCHANGED <<cwd, calls>>
    /\ UNCHANGED <<module_names, T_renorm, renorm_results, pass1_results, submitted,
                   inflight, T_real, cte_real, fcs_real, param_real>>
    /\ UNCHANGED <<dbVars, collectVars, hiphiveVars, bteVars, mwVars>>

\* lines 320-321: thermal_data.pop("n_imaginary") raises KeyError when the
\* dict has no such key; dumpfn follows it
RenormFinish ==
    /\ pc = "renorm_write"
    /\ idx > Len(renorm_results)
    /\ IF "n_imaginary" \in DOMAIN thermal_data
       THEN /\ thermal_data' =
                  [k \in DOMAIN thermal_data \ {"n_imaginary"} |-> thermal_data[k]]
            /\ cwd' = cwd \cup {"thermal_data_renorm.json"}
            /\ pc' = "done"
            /\ error' = error
       ELSE /\ pc' = "failed"
            /\ error' = "KeyError"
            /\ UNCHANGED <<thermal_data, cwd>>
    /\ UNCHANGED <<calls>>
    /\ UNCHANGED <<module_names, T_renorm, renorm_results, pass1_results, submitted,
                   inflight, idx, result, T, T_real, cte_real, fcs_real,
                   param_real, tfiles>>
    /\ UNCHANGED <<dbVars, collectVars, hiphiveVars, bteVars, mwVars>>

\* the lists of pairwise-distinct temperatures
TempLists ==
    {l \in SeqsUpTo(Temps, NumTemps) :
        \A i, j \in DOMAIN l : i # j => l[i] # l[j]}

InitRenorm ==
    /\ IdleDb
    /\ pc = "renorm_pass1"
    /\ error = "none"
    /\ cwd = {"structure_data.json"}
    /\ calls = << >>
    /\ fw_in = [has_perturbed_tasks |-> FALSE, perturbed_tasks |-> << >>,
                calc_locs |-> << >>]
    /\ results = << >>
    /\ structure = NoStructure
    /\ supercell_matrix = "none"
    /\ supercell_structure = NoStructure
    /\ structure_data = NoStructureData
    /\ cutoffs = "None"
    /\ bulk_modulus \in {"None", "given"}
    /\ fcs = "unset"
    /\ n_imaginary = -1
    /\ widx = 0
    /\ module_names \in SUBSET FreeNames
    /\ T_renorm \in TempLists
    /\ renorm_results = Pending(Len(T_renorm))
    /\ pass1_results = << >>
    /\ submitted = 0
    /\ inflight = {}
    /\ idx = 0
    /\ result = Unassigned
    /\ T = Unbound
    /\ T_real = << >>
    /\ cte_real = << >>
    /\ fcs_real = << >>
    /\ param_real = << >>
    /\ thermal_data = << >>
    /\ tfiles = << >>
    /\ IdleBte
    /\ IdleMw

NextRenorm ==
    \/ RenormSubmit
    \/ RenormComplete
    \/ RenormCollect
    \/ RenormPartition
    \/ RenormBranch
    \/ RenormWrite
    \/ RenormFinish

SpecRenorm == InitRenorm /\ [][NextRenorm]_vars

\* the temperatures of the files "<stem>_{T}K" written so far, in order
WrittenTemps(stem) ==
    LET sel == SelectSeq(tfiles, LAMBDA f : f.file.name = stem)
    IN  [i \in 1..Len(sel) |-> sel[i].file.T]

\* the first-pass records that are real: not None, no imaginary mode, and a
\* bulk modulus is given
RealRecords ==
    SelectSeq(pass1_results,
              LAMBDA r : /\ r.kind = "record"
                         /\ r.n_imaginary = 0
                         /\ bulk_modulus # "None")

RealTemps == {RealRecords[i].temperature[1] : i \in 1..Len(RealRecords)}

Ascending(seq) == \A i, j \in 1..Len(seq) : i < j => seq[i] < seq[j]

\* the second loop has written the files of every corrected temperature
SecondPassWritten ==
    \/ pc = "renorm_write" /\ idx > Len(renorm_results)
    \/ error = "KeyError"
    \/ "thermal_data_renorm.json" \in cwd

AtNullResult ==
    /\ pc = "renorm_partition"
    /\ idx <= Len(renorm_results)
    /\ renorm_results[idx].kind = "None"

C10_DegenerateZeroWrittenDirectly ==
    (/\ pc \in {"done", "failed"}
     /\ Len(RealRecords) = 1
     /\ RealRecords[1].temperature[1] = 0) =>
        /\ [file |-> FileNameT("force_constants", 0),
            data |-> RealRecords[1].fcs[1]] \in Range(tfiles)
        /\ [file |-> FileNameT("parameters", 0),
            data |-> RealRecords[1].param[1]] \in Range(tfiles)
        /\ \A i \in 1..Len(calls) :
              /\ calls[i][1] \notin {"thermal_expansion", "setup_TE_renorm"}
              /\ (calls[i][1] = "renormalization" => calls[i][2] = 1)

\* the second pass ran and every call of it returned a record
SecondPassAllRecords ==
    /\ DOMAIN thermal_data # {}
    /\ \A i \in 1..Len(renorm_results) : renorm_results[i].kind = "record"

\* C11: when the second pass runs and every call of it returns a record, the
\* task completes and writes thermal_data_renorm.json: under each of the
\* seven thermal keys a list with one value per corrected temperature, in
\* ascending temperature order.
C11_ThermalDataWritten ==
    (pc \in {"done", "failed"} /\ SecondPassAllRecords) =>
        /\ pc = "done"
        /\ error = "none"
        /\ "thermal_data_renorm.json" \in cwd
        /\ DOMAIN thermal_data = thermal_keys
        /\ \A k \in thermal_keys : Len(thermal_data[k]) = Len(T_real)
        /\ thermal_data["temperature"] = T_real
        /\ Ascending(T_real)

\* ------------------------------------------------------------------------
\* RunShengBTE.run_task
\* ------------------------------------------------------------------------

\* bounds on the temperature list: its values 0, 100, 200, ... and its length
NumBteTemps == 4
MaxBteLen == 4

BteTemps == {100 * i : i \in 0..(NumBteTemps - 1)}

BteLists == SeqsUpTo(BteTemps, MaxBteLen)

\* what self.get("temperature", T_KLAT) can be: a number, a list, a dict
\* with min, max and step, or a value of another type
BteInputs ==
    {[kind |-> "scalar", value |-> 300],
     [kind |-> "dict", value |-> [min |-> 100, max |-> 300, step |-> 50]],
     [kind |-> "other", value |-> "300"]}
      \cup {[kind |-> "list", value |-> l] : l \in BteLists}

\* exit statuses of the solver: success, 1, another failure, killed by a signal
ReturnCodes == {0, 1, 2, -9}

RECURSIVE GCD(_, _)
GCD(a, b) == IF b = 0 THEN a ELSE GCD(b, a % b)

Abs(a) == IF a < 0 THEN -a ELSE a

\* a / b on numpy numbers, as a fraction in lowest terms with a positive
\* denominator; division by zero raises nothing and gives inf (1/0),
\* -inf (-1/0) or nan (0/0)
TrueDiv(a, b) ==
    IF b = 0
    THEN [num |-> IF a > 0 THEN 1 ELSE IF a < 0 THEN -1 ELSE 0, den |-> 0]
    ELSE LET g == GCD(Abs(a), Abs(b))
             sgn == IF b < 0 THEN -1 ELSE 1
         IN  [num |-> sgn * (a \div g), den |-> sgn * (b \div g)]

\* np.max(np.array(seq)) and np.min(np.array(seq))
NpMax(seq) == CHOOSE x \in Range(seq) : \A y \in Range(seq) : y <= x

NpMin(seq) == CHOOSE x \in Range(seq) : \A y \in Range(seq) : x <= y

\* the element np.partition(seq, 0) leaves at position 0
NpPartitionFirst(seq, kth) == NpMin(seq)

\* np.partition(seq, kth)[kth]: the element that a sort leaves at position
\* kth (counted from 0)
NpPartitionAt(seq, kth) ==
    CHOOSE x \in Range(seq) :
        /\ Cardinality({i \in DOMAIN seq : seq[i] < x}) <= kth
        /\ kth < Cardinality({i \in DOMAIN seq : seq[i] <= x})

\* lines 525-534 for a list on which numpy raises nothing
DeriveFromList(temperature) ==
    LET t_max == NpMax(temperature)
        t_min == NpMin(temperature)
        n == Len(temperature)
    IN  IF t_min = 0
        THEN [t_min |-> NpPartitionAt(temperature, 1),
              t_max |-> t_max,
              t_step |-> TrueDiv(t_max - NpPartitionAt(temperature, 1), n - 2)]
        ELSE [t_min |-> t_min,
              t_max |-> t_max,
              t_step |-> TrueDiv(t_max - t_min, n - 1)]

\* np.max of an empty array and np.partition(seq, 1) of a one-element array
\* raise ValueError
NumpyRaises(temperature) ==
    \/ Len(temperature) = 0
    \/ Len(temperature) = 1 /\ temperature[1] = 0

\* lines 517-540: the temperature entries the task sets on itself
BteDerive ==
    /\ pc = "bte_start"
    /\ LET temperature == bte_temperature.value
       IN  CASE bte_temperature.kind = "scalar" ->
                  /\ self_t' = [t |-> temperature]
                  /\ pc' = "bte_control"
                  /\ error' = error
             [] bte_temperature.kind = "list" ->
                  IF NumpyRaises(temperature)
                  THEN /\ pc' = "failed"
                       /\ error' = "ValueError"
                       /\ self_t' = self_t
                  ELSE /\ self_t' = DeriveFromList(temperature)
                       /\ pc' = "bte_control"
                       /\ error' = error
             [] bte_temperature.kind = "dict" ->
                  /\ self_t' = [t_min |-> temperature.min,
                                t_max |-> temperature.max,
                                t_step |-> temperature.step]
                  /\ pc' = "bte_control"
                  /\ error' = error
             [] OTHER ->
                  /\ pc' = "failed"
                  /\ error' = "ValueError"
                  /\ self_t' = self_t
    /\ UNCHANGED <<cwd, calls>>
    /\ UNCHANGED <<bte_temperature, open_files, return_code, error_path>>
    /\ UNCHANGED <<dbVars, collectVars, hiphiveVars, renormVars, mwVars>>

\* lines 542-552: the control file, built from the temperature as given
BteControl ==
    /\ pc = "bte_control"
    /\ calls' = Append(calls, <<"Control.from_structure", bte_temperature>>)
    /\ cwd' = cwd \cup {"CONTROL"}
    /\ pc' = "bte_open"
    /\ UNCHANGED error
    /\ UNCHANGED bteVars
    /\ UNCHANGED <<dbVars, collectVars, hiphiveVars, renormVars, mwVars>>

\* lines 563-565: both log files are created and held open
BteOpen ==
    /\ pc = "bte_open"
    /\ cwd' = cwd \cup {"shengbte.out", "shengbte_err.txt"}
    /\ open_files' = {"shengbte.out", "shengbte_err.txt"}
    /\ pc' = "bte_call"
    /\ UNCHANGED <<error, calls>>
    /\ UNCHANGED <<bte_temperature, self_t, return_code, error_path>>
    /\ UNCHANGED <<dbVars, collectVars, hiphiveVars, renormVars, mwVars>>

\* lines 567-569: subprocess.call blocks until the solver has exited; the
\* solver leaves any of its output tables behind
BteCall ==
    /\ pc = "bte_call"
    /\ \E rc \in ReturnCodes, out \in SUBSET BteOutputs :
          /\ return_code' = <<rc>>
          /\ cwd' = cwd \cup out
    /\ calls' = Append(calls, <<"subprocess.call">>)
    /\ pc' = "bte_close"
    /\ UNCHANGED error
    /\ UNCHANGED <<bte_temperature, self_t, open_files, error_path>>
    /\ UNCHANGED <<dbVars, collectVars, hiphiveVars, renormVars, mwVars>>

\* the end of the with block closes both files
BteClose ==
    /\ pc = "bte_close"
    /\ open_files' = {}
    /\ pc' = "bte_check"
    /\ UNCHANGED <<error, cwd, calls>>
    /\ UNCHANGED <<bte_temperature, self_t, return_code, error_path>>
    /\ UNCHANGED <<dbVars, collectVars, hiphiveVars, renormVars, mwVars>>

\* the exit statuses after which run_task raises: none
FatalCodesNone == {}

\* the exit statuses after which run_task raises (line 576)
FatalCodes == {1}

\* lines 576-580
BteCheck ==
    /\ pc = "bte_check"
    /\ IF return_code[1] \in FatalCodes
       THEN /\ pc' = "failed"
            /\ error' = "RuntimeError"
            /\ error_path' = <<"os.getcwd()", "shengbte_err.txt">>
       ELSE /\ pc' = "done"
            /\ UNCHANGED <<error, error_path>>
    /\ UNCHANGED <<cwd, calls>>
    /\ UNCHANGED <<bte_temperature, self_t, open_files, return_code>>
    /\ UNCHANGED <<dbVars, collectVars, hiphiveVars, renormVars, mwVars>>

InitBte ==
    /\ IdleDb
    /\ pc = "bte_start"
    /\ error = "none"
    /\ cwd = {"structure_data.json", "FORCE_CONSTANTS_2ND", "FORCE_CONSTANTS_3RD"}
    /\ calls = << >>
    /\ fw_in = [has_perturbed_tasks |-> FALSE, perturbed_tasks |-> << >>,
                calc_locs |-> << >>]
    /\ results = << >>
    /\ structure = NoStructure
    /\ supercell_matrix = "none"
    /\ supercell_structure = NoStructure
    /\ structure_data = NoStructureData
    /\ cutoffs = "None"
    /\ bulk_modulus = "None"
    /\ fcs = "unset"
    /\ n_imaginary = -1
    /\ widx = 0
    /\ IdleRenorm
    /\ IdleMw
    /\ bte_temperature \in BteInputs
    /\ self_t = << >>
    /\ open_files = {}
    /\ return_code = << >>
    /\ error_path = "none"

NextBte ==
    \/ BteDerive
    \/ BteControl
    \/ BteOpen
    \/ BteCall
    \/ BteClose
    \/ BteCheck

SpecBte == InitBte /\ [][NextBte]_vars

\* ------------------------------------------------------------------------
\* Properties of RunShengBTE
\* ------------------------------------------------------------------------

\* the task was given a list and has derived its temperature entries
DerivedFromList ==
    /\ bte_temperature.kind = "list"
    /\ DOMAIN self_t # {}

\* the smallest value left once one occurrence of the minimum is taken out
SecondSmallest(seq) ==
    LET i0 == CHOOSE i \in DOMAIN seq : \A j \in DOMAIN seq : seq[i] <= seq[j]
        rest == DOMAIN seq \ {i0}
    IN  CHOOSE x \in {seq[i] : i \in rest} : \A i \in rest : x <= seq[i]

\* seq with the values at positions i and j exchanged
Swap(seq, i, j) ==
    [k \in DOMAIN seq |-> IF k = i THEN seq[j] ELSE IF k = j THEN seq[i] ELSE seq[k]]

\* q is the quotient a / b of a nonzero b
IsQuotient(q, a, b) == q.den # 0 /\ q.num * b = a * q.den

\* C12: for a temperature list of n values t_max is the maximum; when the
\* minimum is 0, t_min is the second-smallest value and t_step is
\* (t_max - t_min)/(n-2), otherwise t_min is the minimum and t_step is
\* (t_max - t_min)/(n-1), wherever that divisor is not zero. The values 0,
\* 100, 200, 300 in any order give t_min=100, t_max=300, t_step=100, and
\* exchanging two values of a list does not change what is derived.
C12_TemperatureDerivation ==
    DerivedFromList =>
        LET l == bte_temperature.value
            n == Len(l)
            lo == CHOOSE x \in Range(l) : \A i \in DOMAIN l : x <= l[i]
        IN  /\ self_t.t_max \in Range(l)
            /\ \A i \in DOMAIN l : l[i] <= self_t.t_max
            /\ IF lo = 0
               THEN /\ self_t.t_min = SecondSmallest(l)
                    /\ (n > 2 => IsQuotient(self_t.t_step,
                                            self_t.t_max - self_t.t_min, n - 2))
               ELSE /\ self_t.t_min = lo
                    /\ (n > 1 => IsQuotient(self_t.t_step,
                                            self_t.t_max - self_t.t_min, n - 1))
            /\ (n = 4 /\ Range(l) = {0, 100, 200, 300} =>
                   self_t = [t_min |-> 100, t_max |-> 300,
                             t_step |-> [num |-> 100, den |-> 1]])
            /\ \A i, j \in DOMAIN l : DeriveFromList(Swap(l, i, j)) = self_t

C12_Witness ==
    /\ pc = "done"
    /\ bte_temperature.kind = "list"
    /\ bte_temperature.value = <<200, 0, 300, 100>>
    /\ self_t = [t_min |-> 100, t_max |-> 300, t_step |-> [num |-> 100, den |-> 1]]

\* the calls of the solver made so far
SolverCalls == {i \in DOMAIN calls : calls[i][1] = "subprocess.call"}

LogFiles == {"shengbte.out", "shengbte_err.txt"}

\* C13: when the solver exits with code 1 the task fails with an error that
\* names shengbte_err.txt in the current working directory; the error is
\* raised only once the solver has exited and both log files are written
\* and closed, and the solver is not run a second time.
C13_ExitCodeOneIsFatal ==
    /\ Cardinality(SolverCalls) <= 1
    /\ (return_code = <<1>> /\ pc \notin {"bte_close", "bte_check"}) =>
          /\ pc = "failed"
          /\ error = "RuntimeError"
          /\ error_path = <<"os.getcwd()", "shengbte_err.txt">>
    /\ error = "RuntimeError" =>
          /\ return_code # << >>
          /\ Cardinality(SolverCalls) = 1
          /\ LogFiles \subseteq cwd
          /\ open_files = {}

C13_Witness ==
    /\ return_code = <<1>>
    /\ pc = "failed"
    /\ error = "RuntimeError"
    /\ open_files = {}

\* C14: the task completes without error only when the solver exits with
\* code 0; it fails for every other exit code.
C14_NonzeroExitFails ==
    /\ (pc = "done" => return_code = <<0>>)
    /\ (return_code # << >> /\ return_code # <<0>>
          /\ pc \notin {"bte_close", "bte_check"} => pc = "failed")

\* ------------------------------------------------------------------------
\* Properties of ShengBTEToDb and ForceConstantsRenormToDb
\* ------------------------------------------------------------------------

\* the thermal-conductivity documents inserted from workflow w's directory
KappaDocs(w) == {k \in db_kappa : k.shengbte_dir = w}

\* the rows of the table the task is to read in directory d, which holds one
ExpectedRows(d) ==
    IF "BTE.KappaTensorVsT_CONV" \in DOMAIN d.kappa
    THEN d.kappa["BTE.KappaTensorVsT_CONV"]
    ELSE d.kappa["BTE.KappaTensorVsT_RTA"]

\* C15: ShengBTEToDb reads BTE.KappaTensorVsT_CONV if it exists, otherwise
\* BTE.KappaTensorVsT_RTA if it exists; when neither exists the task fails
\* with an error and inserts no document into lattice_thermal_conductivity.
C15_OutputTableSelection ==
    \A w \in Wf :
        /\ DOMAIN wdir[w].kappa = {} =>
              /\ KappaDocs(w) = {}
              /\ "ShengBTEToDb" \notin completed[w]
              /\ (task[w] = "ShengBTEToDb" => dpc[w] = "RuntimeError")
        /\ dpc[w] = "RuntimeError" => DOMAIN wdir[w].kappa = {}
        /\ "ShengBTEToDb" \in completed[w] => KappaDocs(w) # {}
        /\ \A k \in KappaDocs(w) :
              k.temperatures =
                 [i \in DOMAIN ExpectedRows(wdir[w]) |-> ExpectedRows(wdir[w])[i][1]]

C15_Witness ==
    \E w \in Wf :
        /\ DOMAIN wdir[w].kappa = BteOutputs
        /\ wdir[w].kappa["BTE.KappaTensorVsT_CONV"] = <<KappaRow(300)>>
        /\ wdir[w].kappa["BTE.KappaTensorVsT_RTA"] = <<KappaRow(100)>>
        /\ \E k \in KappaDocs(w) : k.temperatures = <<300>>

\* C16: a table of r >= 1 rows, each a temperature followed by nine tensor
\* components, is stored as r temperatures and r 3x3 tensors; entry (a, b)
\* of tensor i, counted from 0, is column 1 + 3a + b of row i; a table of
\* one row gives the tensor that row gives within a longer table.
C16_TableParsing ==
    /\ \A w \in Wf :
          /\ task[w] = "ShengBTEToDb" /\ dpc[w] = "IndexError" =>
                ExpectedRows(wdir[w]) = << >>
          /\ \A k \in KappaDocs(w) :
                LET rows == ExpectedRows(wdir[w])
                    kappa == k.lattice_thermal_conductivity
                IN  /\ Len(rows) >= 1
                    /\ Len(k.temperatures) = Len(rows)
                    /\ Len(kappa) = Len(rows)
                    /\ \A i \in DOMAIN rows :
                          /\ k.temperatures[i] = rows[i][1]
                          /\ \A a, b \in 0..2 :
                                kappa[i][a + 1][b + 1] = rows[i][1 + 3 * a + b + 1]
    /\ \A t \in KappaTables : \A i \in DOMAIN t :
          /\ ParseKappa(<<t[i]>>).kappa = <<ParseKappa(t).kappa[i]>>
          /\ ParseKappa(<<t[i]>>).temperatures = <<ParseKappa(t).temperatures[i]>>

C16_Witness ==
    \E k \in db_kappa :
        /\ ExpectedRows(wdir[k.shengbte_dir]) = <<KappaRow(300)>>
        /\ k.temperatures = <<300>>
        /\ k.lattice_thermal_conductivity =
              << << <<301, 302, 303>>, <<304, 305, 306>>, <<307, 308, 309>> >> >>

\* ForceConstantsRenormToDb has run in workflow w, to its end or to an error
RenormToDbEnded(w) ==
    \/ "ForceConstantsRenormToDb" \in completed[w]
    \/ /\ task[w] = "ForceConstantsRenormToDb"
       /\ dpc[w] \notin {"find_counter", "insert_counter", "insert_doc"}

\* C20: in a directory that holds thermal_data_renorm.json and the force
\* constants written for each of its temperatures, ForceConstantsRenormToDb
\* inserts exactly one document; its renormalized_data has one sub-record
\* per temperature, index-aligned with its temperatures list, and the
\* sub-record for temperature T is derived from force_constants_{T}K.fcs.
C20_RenormDocPerTemperature ==
    \A w \in Wf :
        (/\ RenormToDbEnded(w)
         /\ wdir[w].thermal # << >>
         /\ Range(wdir[w].thermal[1].temperature) \subseteq wdir[w].fc_temps) =>
            LET docs == {d \in db_renorm : d.fc_fitting_dir = w}
                temperature == wdir[w].thermal[1].temperature
            IN  /\ "ForceConstantsRenormToDb" \in completed[w]
                /\ Cardinality(docs) = 1
                /\ \A d \in docs :
                      /\ d.temperatures = temperature
                      /\ Len(d.renormalized_data) = Len(temperature)
                      /\ \A i \in DOMAIN d.renormalized_data :
                            d.renormalized_data[i].read_from =
                               FileNameT("force_constants", temperature[i])

\* the first loop has dealt with position i of the first-pass results
Processed(i) ==
    \/ pc = "renorm_partition" /\ idx > i
    \/ pc \in {"renorm_pass2", "renorm_write", "done", "failed"}

\* C17: every first-pass record with imaginary modes, and every first-pass
\* record when no bulk modulus is given, is written to
\* force_constants_{T}K.fcs and parameters_{T}K.txt with T the record's own
\* temperature, so that records of different temperatures go to different
\* files.
C17_DirectRecordsWrittenAtOwnT ==
    \A i \in DOMAIN pass1_results :
        (Classify(pass1_results[i], bulk_modulus) = "direct" /\ Processed(i)) =>
            /\ [file |-> FileNameT("force_constants",
                                   pass1_results[i].temperature[1]),
                data |-> pass1_results[i].fcs[1]] \in Range(tfiles)
            /\ [file |-> FileNameT("parameters",
                                   pass1_results[i].temperature[1]),
                data |-> pass1_results[i].param[1]] \in Range(tfiles)

\* the calls of kind name made so far, in order
CallsOf(name) == SelectSeq(calls, LAMBDA c : c[1] = name)

\* the renormalization calls of the second pass, in order
SecondPassCalls ==
    SelectSeq(CallsOf("renormalization"), LAMBDA c : c[2] = 2)

\* every call of the second pass has been submitted
SecondPassSubmitted ==
    \/ pc = "renorm_pass2" /\ submitted = Len(T_real)
    \/ pc = "renorm_write"
    \/ pc \in {"done", "failed"} /\ DOMAIN thermal_data # {}

ResultTemps ==
    IF pc \in {"renorm_pass1", "renorm_partition"} THEN T_renorm ELSE T_real

\* a worker returns
WorkerReturns == inflight' # inflight /\ inflight' \subseteq inflight

SecondPassHasNull ==
    /\ DOMAIN thermal_data # {}
    /\ \E i \in DOMAIN renorm_results : renorm_results[i].kind = "None"

\* C21: a None result of the second pass is dropped and is not fatal: the
\* run does not end in an error raised on it, and the files and the
\* aggregated thermal properties of the other corrected temperatures are
\* written.
C21_SecondPassNullDropped ==
    (pc \in {"done", "failed"} /\ SecondPassHasNull) =>
        /\ error # "TypeError"
        /\ \A i \in DOMAIN renorm_results :
              renorm_results[i].kind = "record" =>
                 /\ [file |-> FileNameT("force_constants", T_real[i]),
                     data |-> renorm_results[i].fcs[1]] \in Range(tfiles)
                 /\ [file |-> FileNameT("parameters", T_real[i]),
                     data |-> renorm_results[i].param[1]] \in Range(tfiles)
                 /\ T_real[i] \in Range(thermal_data["temperature"])

\* ------------------------------------------------------------------------
\* RunMultiwfn_QTAIM.run_task (atomate/qchem/firetasks/multiwfn.py)
\* ------------------------------------------------------------------------

\* A file name is the sequence of its dot-separated pieces, the last one the
\* extension: "WAVEFUNCTION.wfn.gz" is <<"WAVEFUNCTION", ".wfn", ".gz">>.
WfnName == <<"WAVEFUNCTION", ".wfn">>
OptionsName == <<"multiwfn_options", ".txt">>
CPpropName == <<"CPprop", ".txt">>

\* wfn.endswith(".gz"), wfn[-3:] == ".gz"
EndsWithGz(name) == Len(name) > 0 /\ name[Len(name)] = ".gz"

\* wfn += ".gz"
AppendGz(name) == Append(name, ".gz")

\* wfn[:-3], for a name whose last three characters are ".gz"
StripGz(name) == SubSeq(name, 1, Len(name) - 1)

\* os.path.exists(wfn)
Exists(files, name) == name \in DOMAIN files

\* the content of a file: its data and how many times it is gzipped
Plain == [data |-> "wavefunction", gz |-> 0]
Gzipped(content) == [content EXCEPT !.gz = @ + 1]
Gunzipped(content) == [content EXCEPT !.gz = @ - 1]

\* the directory without the file `name`
Remove(files, name) == [n \in DOMAIN files \ {name} |-> files[n]]

\* the directory with the file `name` written
WriteFile(files, name, content) ==
    [n \in DOMAIN files \cup {name} |->
        IF n = name THEN content ELSE files[n]]

\* decompress_file(wfn) on a file that exists: the uncompressed file is
\* written under the name without the extension, the compressed one removed
DecompressFile(files, name) ==
    Remove(WriteFile(files, StripGz(name), Gunzipped(files[name])), name)

\* compress_file(wfn) on a file that exists: the compressed file is written
\* under the name with the extension, the uncompressed one removed
CompressFileKeep(files, name) ==
    WriteFile(files, AppendGz(name), Gzipped(files[name]))

CompressFile(files, name) ==
    Remove(WriteFile(files, AppendGz(name), Gzipped(files[name])), name)

\* what decompress_file does with a name that is no file depends on the
\* library's version: it raises, or it returns without doing anything
MissingOutcomes == {"FileNotFoundError", "nothing"}

\* lines 43-50
MwMolecule ==
    /\ pc = "mw_start"
    /\ LET molecule == IF mw_in.prev_calc_molecule # "None"
                       THEN mw_in.prev_calc_molecule
                       ELSE mw_in.molecule
       IN  IF molecule = "None"
           THEN /\ pc' = "failed"
                /\ error' = "ValueError"
           ELSE /\ pc' = "mw_locate"
                /\ UNCHANGED error
    /\ UNCHANGED <<cwd, calls>>
    /\ UNCHANGED mwVars
    /\ UNCHANGED <<dbVars, collectVars, hiphiveVars, renormVars, bteVars>>

\* lines 52-58
MwLocate ==
    /\ pc = "mw_locate"
    /\ compress_at_end' = FALSE
    /\ wfn' = IF ~Exists(mw_files, mw_in.wfn_file)
                 /\ ~EndsWithGz(mw_in.wfn_file)
              THEN AppendGz(mw_in.wfn_file)
              ELSE mw_in.wfn_file
    /\ pc' = "mw_decompress"
    /\ UNCHANGED <<error, cwd, calls>>
    /\ UNCHANGED <<mw_in, mw_files>>
    /\ UNCHANGED <<dbVars, collectVars, hiphiveVars, renormVars, bteVars>>

\* lines 60-63
MwDecompress ==
    /\ pc = "mw_decompress"
    /\ IF EndsWithGz(wfn)
       THEN /\ compress_at_end' = TRUE
            /\ IF Exists(mw_files, wfn)
               THEN /\ mw_files' = DecompressFile(mw_files, wfn)
                    /\ wfn' = StripGz(wfn)
                    /\ pc' = "mw_script"
                    /\ UNCHANGED error
               ELSE \E outcome \in MissingOutcomes :
                       /\ UNCHANGED mw_files
                       /\ IF outcome = "nothing"
                          THEN /\ wfn' = StripGz(wfn)
                               /\ pc' = "mw_script"
                               /\ UNCHANGED error
                          ELSE /\ pc' = "failed"
                               /\ error' = outcome
                               /\ UNCHANGED wfn
       ELSE /\ pc' = "mw_script"
            /\ UNCHANGED <<compress_at_end, mw_files, wfn, error>>
    /\ UNCHANGED <<cwd, calls>>
    /\ UNCHANGED mw_in
    /\ UNCHANGED <<dbVars, collectVars, hiphiveVars, renormVars, bteVars>>

\* lines 66-83
MwScript ==
    /\ pc = "mw_script"
    /\ mw_files' = WriteFile(mw_files, OptionsName,
                             [data |-> "input_script", gz |-> 0])
    /\ pc' = "mw_call"
    /\ UNCHANGED <<error, cwd, calls>>
    /\ UNCHANGED <<mw_in, wfn, compress_at_end>>
    /\ UNCHANGED <<dbVars, collectVars, hiphiveVars, renormVars, bteVars>>

\* lines 85-89: the shell runs the command on `wfn` with the options file
\* as its input; Multiwfn reads the wavefunction file and, when it succeeds,
\* writes CPprop.txt; any return code is logged and nothing else
MwCall ==
    /\ pc = "mw_call"
    /\ \E rc \in ReturnCodes :
          /\ return_code' = <<rc>>
          /\ calls' = Append(calls,
                 <<"multiwfn_command", wfn, OptionsName,
                   IF Exists(mw_files, wfn) THEN mw_files[wfn].gz ELSE -1>>)
          /\ mw_files' = IF rc = 0 /\ Exists(mw_files, wfn)
                         THEN WriteFile(mw_files, CPpropName,
                                        [data |-> "critical points", gz |-> 0])
                         ELSE mw_files
    /\ pc' = "mw_compress"
    /\ UNCHANGED <<error, cwd>>
    /\ UNCHANGED <<mw_in, wfn, compress_at_end>>
    /\ UNCHANGED <<bte_temperature, self_t, open_files, error_path>>
    /\ UNCHANGED <<dbVars, collectVars, hiphiveVars, renormVars>>

\* lines 91-92
MwCompress ==
    /\ pc = "mw_compress"
    /\ IF compress_at_end
       THEN IF Exists(mw_files, wfn)
            THEN /\ mw_files' = CompressFile(mw_files, wfn)
                 /\ pc' = "done"
                 /\ UNCHANGED error
            ELSE /\ pc' = "failed"
                 /\ error' = "FileNotFoundError"
                 /\ UNCHANGED mw_files
       ELSE /\ pc' = "done"
            /\ UNCHANGED <<error, mw_files>>
    /\ UNCHANGED <<cwd, calls>>
    /\ UNCHANGED <<mw_in, wfn, compress_at_end>>
    /\ UNCHANGED <<dbVars, collectVars, hiphiveVars, renormVars, bteVars>>

\* the directories the task can start in: the wavefunction file is there
\* uncompressed, compressed, both or not at all
MwDirs ==
    { [n \in names |-> IF EndsWithGz(n) THEN Gzipped(Plain) ELSE Plain] :
        names \in SUBSET {WfnName, AppendGz(WfnName)} }

Molecules == {"None", "molecule"}

InitMw ==
    /\ IdleDb
    /\ pc = "mw_start"
    /\ error = "none"
    /\ cwd = {}
    /\ calls = << >>
    /\ fw_in = [has_perturbed_tasks |-> FALSE, perturbed_tasks |-> << >>,
                calc_locs |-> << >>]
    /\ results = << >>
    /\ structure = NoStructure
    /\ supercell_matrix = "none"
    /\ supercell_structure = NoStructure
    /\ structure_data = NoStructureData
    /\ cutoffs = "None"
    /\ bulk_modulus = "None"
    /\ fcs = "unset"
    /\ n_imaginary = -1
    /\ widx = 0
    /\ IdleRenorm
    /\ IdleBte
    /\ \E name \in {WfnName, AppendGz(WfnName)}, dir \in MwDirs,
          m \in Molecules, p \in Molecules :
          /\ mw_in = [wfn_file |-> name, molecule |-> m,
                      prev_calc_molecule |-> p, files |-> dir]
          /\ mw_files = dir
    /\ wfn = << >>
    /\ compress_at_end = FALSE

NextMw ==
    \/ MwMolecule
    \/ MwLocate
    \/ MwDecompress
    \/ MwScript
    \/ MwCall
    \/ MwCompress

SpecMw == InitMw /\ [][NextMw]_vars

\* ------------------------------------------------------------------------
\* Properties of RunMultiwfn_QTAIM
\* ------------------------------------------------------------------------

\* the name under which the wavefunction file is there compressed
CompressedName ==
    IF EndsWithGz(mw_in.wfn_file)
    THEN mw_in.wfn_file
    ELSE AppendGz(mw_in.wfn_file)

\* the file is supplied compressed (the given name ends in .gz and is a
\* file) or found only compressed (the given name is no file, the name
\* with .gz appended is)
SuppliedCompressed ==
    /\ CompressedName \in DOMAIN mw_in.files
    /\ mw_in.wfn_file \notin DOMAIN mw_in.files \ {CompressedName}

\* the given name has no .gz and is a file
SuppliedUncompressed ==
    /\ ~EndsWithGz(mw_in.wfn_file)
    /\ mw_in.wfn_file \in DOMAIN mw_in.files

\* the wavefunction files of a directory
WfnFiles(files) ==
    [n \in DOMAIN files \cap {WfnName, AppendGz(WfnName)} |-> files[n]]

\* C22: when a molecule is there and the wavefunction file is supplied or
\* found only compressed, it is decompressed before Multiwfn runs, Multiwfn is run on the
\* uncompressed name, and after Multiwfn has returned, with whatever return
\* code, the task ends with the file compressed again as it was and no
\* uncompressed file left; when the given uncompressed file exists the
\* wavefunction files are never touched.
C22_CompressionRestored ==
    /\ (SuppliedCompressed
           /\ pc \in {"mw_script", "mw_call", "mw_compress", "done", "failed"}
           /\ error # "ValueError") =>
          /\ pc # "failed"
          /\ compress_at_end
          /\ wfn = StripGz(CompressedName)
          /\ \A i \in DOMAIN calls :
                calls[i] = <<"multiwfn_command", StripGz(CompressedName),
                             OptionsName, 0>>
          /\ pc # "done" =>
                /\ CompressedName \notin DOMAIN mw_files
                /\ StripGz(CompressedName) \in DOMAIN mw_files
                /\ mw_files[StripGz(CompressedName)]
                      = Gunzipped(mw_in.files[CompressedName])
          /\ pc = "done" =>
                /\ Len(calls) = 1
                /\ CompressedName \in DOMAIN mw_files
                /\ mw_files[CompressedName] = mw_in.files[CompressedName]
                /\ StripGz(CompressedName) \notin DOMAIN mw_files
    /\ SuppliedUncompressed =>
          /\ ~compress_at_end
          /\ WfnFiles(mw_files) = WfnFiles(mw_in.files)
          /\ \A i \in DOMAIN calls : calls[i][2] = mw_in.wfn_file

\* a run that found the file only compressed under the name with .gz
\* appended, and has compressed it again after Multiwfn returned 1
C22_Witness ==
    /\ pc = "done"
    /\ mw_in.wfn_file = WfnName
    /\ DOMAIN mw_in.files = {AppendGz(WfnName)}
    /\ return_code = <<1>>
    /\ Len(calls) = 1
    /\ WfnFiles(mw_files) = mw_in.files

\* C23: once RunShengBTE is past the derivation for a non-empty temperature
\* list, t_min, t_max and t_step are set, no division by zero has been
\* made (t_step is a finite quotient), t_min <= t_max and t_step >= 0; the
\* lists of one value and the lists of two values with minimum 0 included.
C23_DerivationIsFinite ==
    (/\ bte_temperature.kind = "list"
     /\ Len(bte_temperature.value) > 0
     /\ pc # "bte_start") =>
        /\ DOMAIN self_t # {}
        /\ self_t.t_step.den # 0
        /\ self_t.t_min <= self_t.t_max
        /\ self_t.t_step.num >= 0

====
